---- MODULE Spec2Model ----
(***************************************************************************)
(* Model of the hybrid retrieval and answer-assembly engine                *)
(* (src/rubiex/backend/retrieval.py, class RetrievalEngine) together with  *)
(* the /query handler that calls it (src/backend/main.py).                 *)
(*                                                                         *)
(* Strings are sequences of tokens.  Floating-point scores are modelled    *)
(* as exact rationals [n |-> numerator, d |-> denominator].  The results   *)
(* of the external services (vector search, BM25 scoring, language model)  *)
(* are inputs chosen from bounded sets.                                    *)
(***************************************************************************)
EXTENDS Integers, Sequences, FiniteSets, TLC

VARIABLES
    faiss_index,   \* self.faiss_index: FALSE = None, TRUE = loaded
    bm25,          \* self.bm25:        FALSE = None, TRUE = built
    llm,           \* self.llm:         FALSE = None, TRUE = client created
    corpus_docs,   \* self.corpus_docs: sequence of documents
    query_cache,   \* self.query_cache: cache key -> reference into heap
    heap,          \* the result dicts allocated so far (reference = index)
    first,         \* normalized question -> what its computing call returned
    last,          \* the most recent sequential call and what it returned
    rk,            \* one hybrid_retrieve() evaluation: inputs and outputs
    fm,            \* one answer -> chat history -> prompt round trip
    reqs           \* concurrent /query requests and their positions

vars == <<faiss_index, bm25, llm, corpus_docs, query_cache, heap, first, last,
          rk, fm, reqs>>

engineVars == <<faiss_index, bm25, llm, corpus_docs>>

(***************************************************************************)
(* Bounds of the model                                                     *)
(***************************************************************************)
RankDocs == 6
MaxBM25 == 1
MaxDist == 2
MaxTextLen == 4
NumReqs == 2

(***************************************************************************)
(* Program constants                                                       *)
(***************************************************************************)
TopN == 5
CiteN == 3
SnippetLen == 200
EllipsisLen == 3
RetrieveK == 8
MaxTurns == 3

Min(a, b) == IF a < b THEN a ELSE b

Range(s) == {s[i] : i \in 1..Len(s)}

Take(s, n) == SubSeq(s, 1, Min(n, Len(s)))

(***************************************************************************)
(* Rationals standing for Python floats                                    *)
(***************************************************************************)
Rat(n, d) == [n |-> n, d |-> d]

\* a / b; d = 0 stands for the undefined result of dividing by zero
RDiv(a, b) == Rat(a, b)

RSub1(r) == Rat(r.d - r.n, r.d)

RMul(a, b) == Rat(a.n * b.n, a.d * b.d)

RAdd(a, b) == Rat(a.n * b.d + b.n * a.d, a.d * b.d)

RLe(a, b) == a.n * b.d <= b.n * a.d

REq(a, b) == a.n * b.d = b.n * a.d

RZero == Rat(0, 1)

ROne == Rat(1, 1)

RDefined(r) == r.d > 0

(***************************************************************************)
(* Documents: page_content is a text identified by name with its length;   *)
(* metadata holds an optional page index.                                  *)
(***************************************************************************)
NoPage == -1

Doc(name, len, page) == [page_content |-> [name |-> name, len |-> len], page |-> page]

\* doc.metadata.get('page', 0)
MetadataPage(doc) == IF doc.page = NoPage THEN 0 ELSE doc.page

MaxOf(S) == CHOOSE x \in S : \A y \in S : y <= x

(***************************************************************************)
(* hybrid_retrieve                                                         *)
(***************************************************************************)
\* index of key in the insertion-ordered dict d, 0 when absent
DictIndex(d, key) ==
    IF \E i \in 1..Len(d) : d[i].content = key
    THEN CHOOSE i \in 1..Len(d) : d[i].content = key
    ELSE 0

\* d[key] = val: overwrite in place, or append a new key
DictSet(d, key, val) ==
    LET i == DictIndex(d, key)
        e == [content |-> key] @@ val
    IN IF i = 0 THEN Append(d, e) ELSE [d EXCEPT ![i] = e]

RECURSIVE AddBM25(_, _, _, _)
AddBM25(d, i, bm25_scores, max_bm25) ==
    IF i > Len(corpus_docs) \/ i > Len(bm25_scores) THEN d
    ELSE AddBM25(DictSet(d, corpus_docs[i].page_content,
                         [bm25 |-> RDiv(bm25_scores[i], max_bm25),
                          faiss |-> RZero,
                          doc |-> corpus_docs[i]]),
                 i + 1, bm25_scores, max_bm25)

FaissScoreKnown(score, max_faiss) ==
    IF max_faiss > 0 THEN RSub1(RDiv(score, max_faiss)) ELSE RZero

FaissScoreNew(score, max_faiss) == RSub1(RDiv(score, max_faiss))

RECURSIVE AddFaiss(_, _, _, _)
AddFaiss(d, i, faiss_docs, max_faiss) ==
    IF i > Len(faiss_docs) THEN d
    ELSE LET doc == faiss_docs[i].doc
             score == faiss_docs[i].score
             j == DictIndex(d, doc.page_content)
             d2 == IF j # 0
                   THEN [d EXCEPT ![j].faiss = FaissScoreKnown(score, max_faiss)]
                   ELSE Append(d, [content |-> doc.page_content,
                                   bm25 |-> RZero,
                                   faiss |-> FaissScoreNew(score, max_faiss),
                                   doc |-> doc])
         IN AddFaiss(d2, i + 1, faiss_docs, max_faiss)

WeightBM25 == Rat(4, 10)

WeightFaiss == Rat(6, 10)

Combined(e) == RAdd(RMul(WeightBM25, e.bm25), RMul(WeightFaiss, e.faiss))

MaxBM25Of(bm25_scores) ==
    LET m == MaxOf(Range(bm25_scores)) IN IF m > 0 THEN m ELSE 1

MaxFaissOf(faiss_docs) ==
    IF faiss_docs # <<>> THEN MaxOf({faiss_docs[i].score : i \in 1..Len(faiss_docs)})
    ELSE 1

\* lines 118-122: every record gets its combined score
WithCombined(d) == [i \in 1..Len(d) |-> [combined |-> Combined(d[i])] @@ d[i]]

\* doc_scores after the three loops, in dict order
DocScores(faiss_docs, bm25_scores) ==
    WithCombined(AddFaiss(AddBM25(<<>>, 1, bm25_scores, MaxBM25Of(bm25_scores)),
                          1, faiss_docs, MaxFaissOf(faiss_docs)))

\* the order without reverse=True
RECURSIVE SortedAsc(_)
SortedAsc(s) ==
    IF s = <<>> THEN <<>>
    ELSE LET rest == SortedAsc(Tail(s))
             k == Cardinality({i \in 1..Len(rest) :
                                 ~RLe(Head(s).combined, rest[i].combined)})
         IN SubSeq(rest, 1, k) \o <<Head(s)>> \o SubSeq(rest, k + 1, Len(rest))

\* position of x in the stable descending order: after every element that is
\* not smaller
RECURSIVE InsertDesc(_, _)
InsertDesc(s, x) ==
    IF s = <<>> THEN <<x>>
    ELSE IF RLe(x.combined, Head(s).combined)
         THEN <<Head(s)>> \o InsertDesc(Tail(s), x)
         ELSE <<x>> \o s

RECURSIVE SortedDesc(_)
SortedDesc(s) ==
    IF s = <<>> THEN <<>>
    ELSE InsertDesc(SortedDesc(SubSeq(s, 1, Len(s) - 1)), s[Len(s)])

RankedDocs(faiss_docs, bm25_scores) ==
    SortedDesc(DocScores(faiss_docs, bm25_scores))

FirstN(s) == Take(s, TopN)

DocsOf(items) == [i \in 1..Len(items) |-> items[i].doc]

hybrid_retrieve(faiss_docs, bm25_scores) ==
    IF ~faiss_index THEN <<>>
    ELSE IF ~bm25 \/ corpus_docs = <<>>
         THEN DocsOf(FirstN(faiss_docs))
         ELSE DocsOf(FirstN(RankedDocs(faiss_docs, bm25_scores)))

(***************************************************************************)
(* Strings as token sequences: str.lower(), str.strip(), str.split()[0],   *)
(* str.join()                                                              *)
(***************************************************************************)
LowerChar(c) == IF c = "A" THEN "a" ELSE IF c = "B" THEN "b" ELSE c

Lower(s) == [i \in 1..Len(s) |-> LowerChar(s[i])]

IsSpace(c) == c \in {" ", "\n"}

RECURSIVE LStrip(_)
LStrip(s) == IF s # <<>> /\ IsSpace(Head(s)) THEN LStrip(Tail(s)) ELSE s

RECURSIVE RStrip(_)
RStrip(s) ==
    IF s # <<>> /\ IsSpace(s[Len(s)]) THEN RStrip(SubSeq(s, 1, Len(s) - 1)) ELSE s

Strip(s) == RStrip(LStrip(s))

\* hashlib.sha256(...).hexdigest(): a digest that tells distinct inputs apart
Sha256(s) == <<"sha256", s>>

\* the key without case folding
get_cache_key_exact(question) == Sha256(Strip(question))

get_cache_key(question) == Sha256(Strip(Lower(question)))

\* the delimiter "\n\nRelevant pages:"
Marker == <<"\n", "\n", "Relevant pages:">>

StartsAt(s, i, m) == i + Len(m) - 1 <= Len(s) /\ SubSeq(s, i, i + Len(m) - 1) = m

\* s.split(m)[0]: what precedes the first occurrence of m, all of s without one
SplitFirst(s, m) ==
    IF \E i \in 1..Len(s) : StartsAt(s, i, m)
    THEN LET i == CHOOSE i \in 1..Len(s) :
                     StartsAt(s, i, m) /\ \A j \in 1..(i - 1) : ~StartsAt(s, j, m)
         IN SubSeq(s, 1, i - 1)
    ELSE s

RECURSIVE Join(_, _)
Join(sep, parts) ==
    IF parts = <<>> THEN <<>>
    ELSE IF Len(parts) = 1 THEN parts[1]
         ELSE parts[1] \o sep \o Join(sep, Tail(parts))

\* chat_history[-(max_turns * 2):]
RecentHistory(chat_history, max_turns) ==
    IF max_turns * 2 = 0 \/ Len(chat_history) <= max_turns * 2 THEN chat_history
    ELSE SubSeq(chat_history, Len(chat_history) - max_turns * 2 + 1, Len(chat_history))

FormatMessage(msg) ==
    IF msg.role = "user" THEN <<"User: ">> \o msg.content
    ELSE <<"Assistant: ">> \o SplitFirst(msg.content, Marker)

\* the list `formatted` built by format_chat_history
FormatLines(chat_history, max_turns) ==
    LET recent_history == RecentHistory(chat_history, max_turns)
    IN [i \in 1..Len(recent_history) |-> FormatMessage(recent_history[i])]

format_chat_history(chat_history, max_turns) ==
    IF chat_history = <<>> THEN <<"No previous conversation.">>
    ELSE Join(<<"\n">>, FormatLines(chat_history, max_turns))

(***************************************************************************)
(* generate_answer                                                         *)
(***************************************************************************)
FallbackAnswer == <<"No relevant information found in the document.">>

\* doc.page_content[:200] + "..."
Snippet(doc) ==
    [of |-> doc.page_content.name,
     len |-> Min(doc.page_content.len, SnippetLen) + EllipsisLen]

CitedDocs(relevant_docs) == Take(relevant_docs, CiteN)

RECURSIVE AddSources(_, _, _)
AddSources(sources, seen_pages, docs) ==
    IF docs = <<>> THEN sources
    ELSE LET page == MetadataPage(Head(docs)) + 1
         IN IF page \notin seen_pages
            THEN AddSources(Append(sources, [page |-> page, content |-> Snippet(Head(docs))]),
                            seen_pages \cup {page}, Tail(docs))
            ELSE AddSources(sources, seen_pages, Tail(docs))

\* the citations without the seen_pages test
SourcesNoDedup(relevant_docs) ==
    [i \in 1..Len(CitedDocs(relevant_docs)) |->
        [page |-> MetadataPage(relevant_docs[i]) + 1, content |-> Snippet(relevant_docs[i])]]

Sources(relevant_docs) == AddSources(<<>>, {}, CitedDocs(relevant_docs))

RECURSIVE InsertAsc(_, _)
InsertAsc(s, x) ==
    IF s = <<>> THEN <<x>>
    ELSE IF Head(s) <= x THEN <<Head(s)>> \o InsertAsc(Tail(s), x)
         ELSE <<x>> \o s

RECURSIVE Sorted(_)
Sorted(s) == IF s = <<>> THEN <<>> ELSE InsertAsc(Sorted(SubSeq(s, 1, Len(s) - 1)), s[Len(s)])

\* "\n\nRelevant pages: " + ', '.join(map(str, pages))
PageSuffix(pages) ==
    Marker \o <<" ">> \o Join(<<", ">>, [i \in 1..Len(pages) |-> <<ToString(pages[i])>>])

AnswerText(content, sources) ==
    LET pages == Sorted([i \in 1..Len(sources) |-> sources[i].page])
    IN IF pages # <<>> THEN content \o PageSuffix(pages) ELSE content

\* prompt_template.format(...): the three fields filled into the template
Prompt(chat_history, relevant_docs, question) ==
    [chat_history |-> format_chat_history(chat_history, MaxTurns),
     context |-> [i \in 1..Len(relevant_docs) |-> relevant_docs[i].page_content.name],
     question |-> question]

\* self.llm.invoke(prompt): one call, which returns a reply or raises
Failure == <<"raise">>

\* a second attempt after a failed call
InvokeModelRetry(prompt, reply) ==
    [ok |-> reply # Failure, content |-> reply,
     calls |-> IF reply = Failure THEN 2 ELSE 1, prompt |-> prompt]

InvokeModel(prompt, reply) ==
    [ok |-> reply # Failure, content |-> reply, calls |-> 1, prompt |-> prompt]

\* lines 180-183: the stored dict itself is flagged and returned
CacheHit(cache_key) ==
    LET cached_result == query_cache[cache_key]
        heap2 == [heap EXCEPT ![cached_result].cached = TRUE]
    IN [kind |-> "ok", path |-> "hit", cache |-> query_cache, heap |-> heap2,
        ref |-> cached_result, value |-> heap2[cached_result], calls |-> 0]

\* the fallback stored in the cache like a computed result
FallbackStored(cache_key) ==
    [kind |-> "ok", path |-> "fallback",
     cache |-> (cache_key :> (Len(heap) + 1)) @@ query_cache,
     heap |-> Append(heap, [answer |-> FallbackAnswer, sources |-> <<>>, cached |-> FALSE]),
     ref |-> Len(heap) + 1,
     value |-> [answer |-> FallbackAnswer, sources |-> <<>>, cached |-> FALSE],
     calls |-> 0]

\* lines 188-193: a fresh dict, stored nowhere
Fallback(cache_key) ==
    [kind |-> "ok", path |-> "fallback", cache |-> query_cache, heap |-> heap,
     ref |-> 0,
     value |-> [answer |-> FallbackAnswer, sources |-> <<>>, cached |-> FALSE],
     calls |-> 0]

\* the exception of llm.invoke leaves generate_answer before line 247
Raised(cache_key, response) ==
    [kind |-> "error", path |-> "raised", cache |-> query_cache, heap |-> heap,
     ref |-> 0, value |-> [answer |-> <<>>, sources |-> <<>>, cached |-> FALSE],
     calls |-> response.calls]

\* lines 221-249: the new dict is stored in the cache and returned
Computed(cache_key, response, relevant_docs) ==
    LET sources == Sources(relevant_docs)
        result == [answer |-> AnswerText(response.content, sources),
                   sources |-> sources,
                   cached |-> FALSE]
        ref == Len(heap) + 1
    IN [kind |-> "ok", path |-> "computed",
        cache |-> (cache_key :> ref) @@ query_cache,
        heap |-> Append(heap, result),
        ref |-> ref, value |-> result, calls |-> response.calls]

generate_answer(question, chat_history, faiss_docs, bm25_scores, reply) ==
    LET cache_key == get_cache_key(question)
    IN IF cache_key \in DOMAIN query_cache THEN CacheHit(cache_key)
       ELSE LET relevant_docs == hybrid_retrieve(faiss_docs, bm25_scores)
            IN IF relevant_docs = <<>> THEN Fallback(cache_key)
               ELSE LET response == InvokeModel(
                            Prompt(chat_history, relevant_docs, question), reply)
                    IN IF response.ok
                       THEN Computed(cache_key, response, relevant_docs)
                       ELSE Raised(cache_key, response)

(***************************************************************************)
(* External services: the results they can return                          *)
(***************************************************************************)
BM25Vals == {-1, 0, MaxBM25}

DistVals == {0, MaxDist}

\* self.bm25.get_scores(query_tokens): one raw score per corpus document
GetScores(corpus) == [1..Len(corpus) -> BM25Vals]

\* self.faiss_index.similarity_search_with_score(question, k): the k nearest
\* documents of the docstore with their distances, nearest first
SimilaritySearch(corpus, k) ==
    LET m == Min(k, Len(corpus))
    IN {h \in [1..m -> [doc : Range(corpus), score : DistVals]] :
           /\ \A i, j \in 1..m : i < j => h[i].doc # h[j].doc
           /\ \A i, j \in 1..m : i < j => h[i].score <= h[j].score}

(***************************************************************************)
(* Values of the variables a specification does not use                    *)
(***************************************************************************)
EmptyCache == [key \in {} |-> 0]

NoCall == [kind |-> "none"]

IdleRk == [pc |-> "idle"]

IdleFm == [pc |-> "idle"]

IdleReqs == <<>>

(***************************************************************************)
(* Spec: one engine, constructed, loaded once at startup, then asked       *)
(* questions one request at a time                                         *)
(***************************************************************************)
Mammals == <<Doc("cats", 17, 0), Doc("dogs", 21, 1)>>

Report == <<Doc("cover", 90, NoPage), Doc("intro", 250, 0),
            Doc("method", 200, 1), Doc("result", 201, 2), Doc("annex", 40, 3)>>

Corpora == {<<>>, Mammals, Report}

Questions == {<<"a">>, <<" ", "A", "\n">>, <<"b">>}

Replies == {<<"x">>, <<"y">>}

Histories ==
    {<<>>,
     <<[role |-> "user", content |-> <<"b">>],
       [role |-> "assistant", content |-> <<"x">> \o Marker \o <<" ", "1">>]>>}

\* the semantic hits of a question: every passage (k = 8 exceeds the corpus),
\* passage j nearest at distance 0, the others behind it in docstore order
EngineSearch(corpus) ==
    IF corpus = <<>> THEN {<<>>}
    ELSE {[i \in 1..Min(RetrieveK, Len(corpus)) |->
             IF i = 1 THEN [doc |-> corpus[j], score |-> 0]
             ELSE [doc |-> corpus[IF i <= j THEN i - 1 ELSE i], score |-> MaxDist]] :
          j \in 1..Len(corpus)}

\* the lexical scores of a question: at most one passage matches
EngineScores(corpus) ==
    {[i \in 1..Len(corpus) |-> IF i = j THEN MaxBM25 ELSE 0] : j \in 0..Len(corpus)}

NoNorm == [q \in {} |-> 0]

Init ==
    /\ faiss_index = FALSE
    /\ bm25 = FALSE
    /\ llm = FALSE
    /\ corpus_docs = <<>>
    /\ query_cache = EmptyCache
    /\ heap = <<>>
    /\ first = NoNorm
    /\ last = NoCall
    /\ rk = IdleRk
    /\ fm = IdleFm
    /\ reqs = IdleReqs

\* load_resources(), called once by startup_event(); BM25Okapi cannot be
\* built over an empty corpus, which leaves self.bm25 unset
LoadResources ==
    /\ ~faiss_index
    /\ \E corpus \in Corpora :
          /\ faiss_index' = TRUE
          /\ llm' = TRUE
          /\ corpus_docs' = corpus
          /\ bm25' = (corpus # <<>>)
    /\ UNCHANGED <<query_cache, heap, first, last, rk, fm, reqs>>

\* QueryResponse(answer=..., sources=..., cached=result["cached"]), or the
\* HTTPException(500) raised for any exception
Response(result) ==
    IF result.kind = "error"
    THEN [kind |-> "error", status |-> 500, answer |-> <<>>, sources |-> <<>>,
          cached |-> FALSE]
    ELSE [kind |-> "ok", status |-> 200, answer |-> result.value.answer,
          sources |-> result.value.sources, cached |-> result.value.cached]

\* The services are consulted only on the path that reaches them: the vector
\* index after a cache miss on a loaded engine, BM25 when it is built, the
\* model when passages were retrieved.  Elsewhere their result is a placeholder.
Missed(question) == get_cache_key(question) \notin DOMAIN query_cache

SearchResults(question) ==
    IF Missed(question) /\ faiss_index THEN EngineSearch(corpus_docs) ELSE {<<>>}

ScoreResults(question) ==
    IF Missed(question) /\ faiss_index /\ bm25 /\ corpus_docs # <<>>
    THEN EngineScores(corpus_docs) ELSE {<<>>}

ModelReplies(question) ==
    IF Missed(question) /\ faiss_index /\ corpus_docs # <<>>
    THEN Replies \cup {Failure} ELSE {<<>>}

\* query_document(): one request handled from start to end
QueryDocument ==
    \E question \in Questions, chat_history \in Histories :
      \E faiss_docs \in SearchResults(question),
         bm25_scores \in ScoreResults(question),
         reply \in ModelReplies(question) :
        \E result \in {generate_answer(question, chat_history, faiss_docs,
                                       bm25_scores, reply)},
           norm \in {Strip(Lower(question))} :
           /\ query_cache' = result.cache
           /\ heap' = result.heap
           /\ last' = Response(result) @@
                        [question |-> question, known |-> norm \in DOMAIN first,
                         empty |-> (~faiss_index \/ corpus_docs = <<>>),
                         path |-> result.path, ref |-> result.ref,
                         llm_calls |-> result.calls]
           /\ first' = IF result.path = "computed" /\ norm \notin DOMAIN first
                       THEN (norm :> [question |-> question,
                                      answer |-> result.value.answer,
                                      ref |-> result.ref])
                              @@ first
                       ELSE first
           /\ UNCHANGED <<engineVars, rk, fm, reqs>>

Next == LoadResources \/ QueryDocument

Spec == Init /\ [][Next]_vars

Norm(question) == Strip(Lower(question))

\* C1: the object returned by the call that computed an answer is unaffected
\* by later calls for the same normalized question: its served-from-cache flag
\* stays false and a hit does not change the stored entry.
C1_FirstResultUnaffected ==
    \A norm \in DOMAIN first :
        /\ heap[first[norm].ref].cached = FALSE
        /\ heap[first[norm].ref].answer = first[norm].answer

\* C2: once a call has computed a non-fallback answer for a question, every
\* later call whose question has the same lowercase-and-trim form is a cache
\* hit: flag true, the same answer text, no model invocation.
C2_NormalizedHit ==
    (last.kind # "none" /\ last.known) =>
        /\ last.kind = "ok"
        /\ last.cached = TRUE
        /\ last.answer = first[Norm(last.question)].answer
        /\ last.llm_calls = 0

\* a hit for a question spelled differently from the one that was computed
C2_Witness ==
    /\ last.kind = "ok"
    /\ last.known
    /\ last.cached
    /\ last.question # first[Norm(last.question)].question

\* C3: when retrieval returns no passages (index not loaded, or empty corpus)
\* the call returns the fixed fallback, no sources, flag false, and the cache
\* stays empty, so the same question takes the fallback path again.
C3_FallbackNotCached ==
    /\ (last.kind # "none" /\ last.empty) =>
          /\ last.kind = "ok"
          /\ last.answer = FallbackAnswer
          /\ last.sources = <<>>
          /\ last.cached = FALSE
          /\ last.llm_calls = 0
    /\ (~faiss_index \/ corpus_docs = <<>>) => DOMAIN query_cache = {}

\* a fallback answer from a loaded engine whose corpus is empty
C3_Witness ==
    /\ faiss_index
    /\ corpus_docs = <<>>
    /\ last.kind = "ok"
    /\ last.empty
    /\ last.answer = FallbackAnswer

WellFormedSources(sources) ==
    /\ Len(sources) <= 3
    /\ \A i, j \in 1..Len(sources) : i # j => sources[i].page # sources[j].page
    /\ \A i \in 1..Len(sources) :
          /\ sources[i].page > 0
          /\ sources[i].content.len <= 203
          /\ \E d \in Range(corpus_docs) :
                /\ sources[i].page = MetadataPage(d) + 1
                /\ sources[i].content.of = d.page_content.name

\* C4: every computed answer, and every value served from the cache for it,
\* has at most 3 sources, no two with the same page, each page a stored page
\* index plus one, each snippet at most 203 characters.
C4_Citations ==
    /\ \A ref \in DOMAIN heap : WellFormedSources(heap[ref].sources)
    /\ (last.kind = "ok" /\ ~last.empty) => WellFormedSources(last.sources)

\* a cache hit whose three cited passages shared a page and whose snippets
\* were cut at 200 characters
C4_Witness ==
    /\ corpus_docs = Report
    /\ last.kind = "ok"
    /\ last.cached
    /\ Len(last.sources) = 2
    /\ \E i \in 1..2 : last.sources[i].content.len = 203

\* C7: a failing model invocation is made once, surfaces as an error, and
\* leaves the cache as it was; the next call for the question invokes the
\* model again.
C7_FailureNotCached ==
    [][/\ last'.kind = "error" =>
            /\ last'.status = 500
            /\ last'.llm_calls = 1
            /\ query_cache' = query_cache
            /\ heap' = heap
            /\ get_cache_key(last'.question) \notin DOMAIN query_cache'
       /\ (last.kind = "error" /\ Norm(last'.question) = Norm(last.question)) =>
            last'.llm_calls = 1]_vars

\* a failed call on an engine that already holds a cached answer
C7_Witness ==
    /\ last.kind = "error"
    /\ last.llm_calls = 1
    /\ DOMAIN query_cache # {}

(***************************************************************************)
(* SpecRank: hybrid_retrieve() on a loaded engine, inputs drawn in Init    *)
(***************************************************************************)
RankCorpus(n) == [i \in 1..n |-> Doc(i, 10, i - 1)]

\* generate_answer() passes k = 8, which returns every passage of a corpus
\* this small (EngineSearch); smaller k leave passages out of the semantic
\* hits and allow any order and distances
RankKs == {1, 2}

InitRank ==
    /\ faiss_index = TRUE
    /\ bm25 = TRUE
    /\ llm = TRUE
    /\ corpus_docs \in {RankCorpus(n) : n \in 1..RankDocs}
    /\ query_cache = EmptyCache
    /\ heap = <<>>
    /\ first = NoNorm
    /\ last = NoCall
    /\ fm = IdleFm
    /\ reqs = IdleReqs
    /\ \E h \in EngineSearch(corpus_docs)
                 \cup UNION {SimilaritySearch(corpus_docs, k) : k \in RankKs},
          b \in GetScores(corpus_docs) :
            rk = [pc |-> "input", faiss_docs |-> h, bm25_scores |-> b]

RankRetrieve ==
    /\ rk.pc = "input"
    /\ \E doc_scores \in {DocScores(rk.faiss_docs, rk.bm25_scores)},
          result \in {hybrid_retrieve(rk.faiss_docs, rk.bm25_scores)} :
          rk' = [pc |-> "done",
                 faiss_docs |-> rk.faiss_docs,
                 bm25_scores |-> rk.bm25_scores,
                 doc_scores |-> doc_scores,
                 result |-> result]
    /\ UNCHANGED <<engineVars, query_cache, heap, first, last, fm, reqs>>

NextRank == RankRetrieve

SpecRank == InitRank /\ [][NextRank]_vars

\* the scored record of a returned passage
ScoreOf(doc) == rk.doc_scores[DictIndex(rk.doc_scores, doc.page_content)]

\* C5: hybrid_retrieve() on a non-empty corpus returns at most 5 passages and
\* combined_score = 0.4 x lexical + 0.6 x semantic never increases from one
\* returned passage to the next.
C5_RankedTop5 ==
    (rk.pc = "done" /\ corpus_docs # <<>>) =>
        /\ Len(rk.result) <= 5
        /\ \A i \in 1..Len(rk.doc_scores) :
              LET e == rk.doc_scores[i]
              IN 10 * e.combined.n * e.bm25.d * e.faiss.d
                   = (4 * e.bm25.n * e.faiss.d + 6 * e.faiss.n * e.bm25.d) * e.combined.d
        /\ \A i, j \in 1..Len(rk.result) :
              i < j => RLe(ScoreOf(rk.result[j]).combined, ScoreOf(rk.result[i]).combined)

\* a retrieval over more than 5 passages whose scores differ
C5_Witness ==
    /\ rk.pc = "done"
    /\ Len(rk.doc_scores) > 5
    /\ Len(rk.result) = 5
    /\ ~REq(ScoreOf(rk.result[1]).combined, ScoreOf(rk.result[5]).combined)

InUnit(r) == RDefined(r) /\ RLe(RZero, r) /\ RLe(r, ROne)

\* C6: after normalization every scored record has lexical_score,
\* semantic_score and combined_score within [0, 1], whatever raw lexical
\* scores (positive, zero or negative) and non-negative distances come back.
C6_ScoresInUnitInterval ==
    rk.pc = "done" =>
        \A i \in 1..Len(rk.doc_scores) :
            /\ InUnit(rk.doc_scores[i].bm25)
            /\ InUnit(rk.doc_scores[i].faiss)
            /\ InUnit(rk.doc_scores[i].combined)

\* the zero-denominator floor the lexical scores use
Floor1(m) == IF m > 0 THEN m ELSE 1

\* C9: each semantic hit's normalized score is 1 - distance / D, where D is
\* the largest distance of the result set, or 1 when that is not above 0.
C9_SemanticNormalization ==
    rk.pc = "done" =>
        \A i \in 1..Len(rk.faiss_docs) :
            REq(ScoreOf(rk.faiss_docs[i].doc).faiss,
                RSub1(Rat(rk.faiss_docs[i].score,
                          Floor1(MaxFaissOf(rk.faiss_docs)))))

(***************************************************************************)
(* SpecFmt: an answer is synthesized, the chat UI appends the exchange to  *)
(* its history, and a later request formats that history                  *)
(***************************************************************************)
Tokens == {"x", "\n", "Relevant pages:"}

Texts == UNION {[1..n -> Tokens] : n \in 0..MaxTextLen}

FmtSources ==
    {<<>>,
     <<[page |-> 1, content |-> Snippet(Mammals[1])]>>,
     <<[page |-> 2, content |-> Snippet(Mammals[2])],
       [page |-> 1, content |-> Snippet(Mammals[1])]>>}

\* earlier exchanges already in the session: none, or enough for the
\* history to exceed 2 * max_turns messages
PriorTurns == {0, 5}

Filler(n) ==
    [i \in 1..n |-> IF i % 2 = 1 THEN [role |-> "user", content |-> <<"b">>]
                    ELSE [role |-> "assistant", content |-> <<"y">>]]

InitFmt ==
    /\ faiss_index = TRUE
    /\ bm25 = TRUE
    /\ llm = TRUE
    /\ corpus_docs = Mammals
    /\ query_cache = EmptyCache
    /\ heap = <<>>
    /\ first = NoNorm
    /\ last = NoCall
    /\ rk = IdleRk
    /\ reqs = IdleReqs
    /\ \E content \in Texts, sources \in FmtSources, user \in Questions,
          prior \in PriorTurns :
          fm = [pc |-> "input", content |-> content, sources |-> sources,
                user |-> user, prior |-> prior]

\* generate_answer, lines 235-238: the page references are appended
FmtSynthesize ==
    /\ fm.pc = "input"
    /\ fm' = [pc |-> "answered", answer |-> AnswerText(fm.content, fm.sources)] @@ fm
    /\ UNCHANGED <<engineVars, query_cache, heap, first, last, rk, reqs>>

\* the chat UI appends the user message and then the assistant message
FmtConverse ==
    /\ fm.pc = "answered"
    /\ fm' = [pc |-> "history",
              chat_history |-> Filler(fm.prior) \o
                               <<[role |-> "user", content |-> fm.user],
                                 [role |-> "assistant", content |-> fm.answer]>>] @@ fm
    /\ UNCHANGED <<engineVars, query_cache, heap, first, last, rk, reqs>>

\* format_chat_history(chat_history, max_turns=3) of the next request
FmtFormat ==
    /\ fm.pc = "history"
    /\ fm' = [pc |-> "formatted",
              formatted |-> FormatLines(fm.chat_history, MaxTurns),
              text |-> format_chat_history(fm.chat_history, MaxTurns)] @@ fm
    /\ UNCHANGED <<engineVars, query_cache, heap, first, last, rk, reqs>>

NextFmt == FmtSynthesize \/ FmtConverse \/ FmtFormat

SpecFmt == InitFmt /\ [][NextFmt]_vars

\* C10: an assistant turn holding a synthesized answer (model text t plus the
\* appended page references) is rendered as exactly "Assistant: " + t, and
\* the user turn before it as "User: " + its content.
C10_RoundTrip ==
    (fm.pc = "formatted" /\ fm.sources # <<>>) =>
        /\ fm.formatted[Len(fm.formatted)] = <<"Assistant: ">> \o fm.content
        /\ fm.formatted[Len(fm.formatted) - 1] = <<"User: ">> \o fm.user

(***************************************************************************)
(* SpecConc: several callers share one loaded engine; each /query request  *)
(* advances through generate_answer() and the building of its response     *)
(* one step at a time                                                      *)
(***************************************************************************)
Requests == 1..NumReqs

InitConc ==
    /\ faiss_index = TRUE
    /\ bm25 = TRUE
    /\ llm = TRUE
    /\ corpus_docs = Mammals
    /\ query_cache = EmptyCache
    /\ heap = <<>>
    /\ first = NoNorm
    /\ last = NoCall
    /\ rk = IdleRk
    /\ fm = IdleFm
    /\ reqs \in [Requests -> [pc : {"start"}, question : Questions,
                              chat_history : Histories]]

Others == <<engineVars, first, last, rk, fm>>

\* lines 179-181: the cache lookup
ConcLookup(r) ==
    /\ reqs[r].pc = "start"
    /\ LET cache_key == get_cache_key(reqs[r].question)
       IN IF cache_key \in DOMAIN query_cache
          THEN reqs' = [reqs EXCEPT ![r] = [pc |-> "hit", path |-> "hit",
                                             ref |-> query_cache[cache_key]] @@ @]
          ELSE reqs' = [reqs EXCEPT ![r] = [pc |-> "miss", path |-> "miss"] @@ @]
    /\ UNCHANGED <<query_cache, heap, Others>>

\* lines 182-183: the stored dict is flagged and returned
ConcMarkCached(r) ==
    /\ reqs[r].pc = "hit"
    /\ heap' = [heap EXCEPT ![reqs[r].ref].cached = TRUE]
    /\ reqs' = [reqs EXCEPT ![r].pc = "returned"]
    /\ UNCHANGED <<query_cache, Others>>

\* lines 186-221: retrieval and the blocking model call
ConcInvoke(r) ==
    /\ reqs[r].pc = "miss"
    /\ \E faiss_docs \in EngineSearch(corpus_docs),
          bm25_scores \in EngineScores(corpus_docs),
          reply \in Replies \cup {Failure} :
         \E relevant_docs \in {hybrid_retrieve(faiss_docs, bm25_scores)} :
           \E response \in {InvokeModel(Prompt(reqs[r].chat_history, relevant_docs,
                                               reqs[r].question), reply)} :
              reqs' = [reqs EXCEPT ![r] =
                         [pc |-> IF response.ok THEN "invoked" ELSE "raised",
                          content |-> response.content,
                          docs |-> relevant_docs] @@ @]
    /\ UNCHANGED <<query_cache, heap, Others>>

\* lines 223-249: the result dict is built, cached and returned
ConcStore(r) ==
    /\ reqs[r].pc = "invoked"
    /\ \E result \in {Computed(get_cache_key(reqs[r].question),
                               [content |-> reqs[r].content, calls |-> 1],
                               reqs[r].docs)} :
          /\ query_cache' = result.cache
          /\ heap' = result.heap
          /\ reqs' = [reqs EXCEPT ![r] = [pc |-> "returned", ref |-> result.ref] @@ @]
    /\ UNCHANGED Others

\* query_document, lines 124-130: the response is built from the returned dict
ConcRespond(r) ==
    /\ reqs[r].pc = "returned"
    /\ reqs' = [reqs EXCEPT ![r] =
                  [pc |-> "done",
                   response |-> Response([kind |-> "ok",
                                          value |-> heap[reqs[r].ref]])] @@ @]
    /\ UNCHANGED <<query_cache, heap, Others>>

\* query_document, lines 132-136: the exception becomes a 500 response
ConcFail(r) ==
    /\ reqs[r].pc = "raised"
    /\ reqs' = [reqs EXCEPT ![r] =
                  [pc |-> "done", response |-> Response([kind |-> "error"])] @@ @]
    /\ UNCHANGED <<query_cache, heap, Others>>

NextConc ==
    \E r \in Requests :
        \/ ConcLookup(r)
        \/ ConcMarkCached(r)
        \/ ConcInvoke(r)
        \/ ConcStore(r)
        \/ ConcRespond(r)
        \/ ConcFail(r)

SpecConc == InitConc /\ [][NextConc]_vars

====
